---- MODULE Spec2Model ----
(***************************************************************************)
(* The chat analysis pipeline (app/features/chat/services.py) and the      *)
(* retry decorator it is built on (app/shared/utils.py).                   *)
(*                                                                         *)
(* A behaviour of Spec is one of two runs:                                 *)
(*   - one call of ChatOrchestrator.analyze_message, with its five agent   *)
(*     calls, each wrapped by retry_with_backoff(max_retries=3);           *)
(*   - one call of a function decorated by retry_with_backoff with         *)
(*     arbitrary max_retries, backoff_factor and exceptions (id "op"),     *)
(*     through async_wrapper and, beside it, through sync_wrapper.         *)
(* The steps are those of the asyncio event loop: a coroutine runs until   *)
(* it awaits the inference client or asyncio.sleep; the task that runs     *)
(* analyze_message can be cancelled while it is suspended.                 *)
(*                                                                         *)
(* The parts of the server around the pipeline have specifications of      *)
(* their own: LiveSpec (one call of analyze_message on a fair event loop), *)
(* RouteSpec (the /analyze route on top of analyze_message), LimiterSpec   *)
(* (the rate limiter and its middleware) and GraphSpec (the agent graph).  *)
(***************************************************************************)
EXTENDS Integers, Sequences, FiniteSets, TLC

VARIABLES
    conversation_history,  \* argument of analyze_message
    pc,                    \* where analyze_message stands
    retrier,               \* per wrapper call: state, attempt, last_exception
    outcome,               \* per wrapper call: what it returned or raised
    invocations,           \* per wrapper call: times the wrapped function ran
    api_calls,             \* per agent: chat.completions.create calls issued
    slept,                 \* per wrapper call: the delays passed to asyncio.sleep
    call_args,             \* per agent: the arguments analyze_message passed
    result,                \* what analyze_message returned
    error,                 \* what analyze_message raised
    failures,              \* per wrapper call: runs of the wrapped function that raised
    accepted,              \* per agent: the reply body its returned value was made from
    deco,                  \* arguments of the decorator around "op"
    inference,             \* how the inference client behaves in this run
    op_script,             \* what the runs of "op" did, in order, so far
    sync,                  \* the call of "op" through the synchronous wrapper
    node,                  \* agent graph: the node that runs next
    messages,              \* agent graph: AgentState["messages"]
    clock,                 \* time.time()
    requests,              \* RateLimiter._requests
    settings,              \* RATE_LIMIT_REQUESTS, RATE_LIMIT_WINDOW, ENABLE_RATE_LIMITING
    calls,                 \* the calls of RateLimiter.is_allowed so far, with their answers
    served,                \* the answer to the latest HTTP request: client, path, status
    conversation,          \* /analyze: conversation.messages of the request
    route,                 \* /analyze: where the route handler stands
    http_response,         \* /analyze: the response the client receives
    background_tasks,      \* /analyze: the tasks added to BackgroundTasks
    log_records            \* /analyze: what log_analysis_result has written

graphVars == <<node, messages>>
limiterVars == <<clock, requests, settings, calls, served>>
routeVars == <<conversation, route, http_response, background_tasks, log_records>>
serverVars == <<graphVars, limiterVars, routeVars>>

vars == <<conversation_history, pc, retrier, outcome, invocations, api_calls,
          slept, call_args, result, error, failures, accepted, deco, inference,
          op_script, sync, serverVars>>

(***************************************************************************)
(* Bounds of the model.                                                    *)
(***************************************************************************)
\* failed attempts in one analyze_message call against an "arbitrary" client
MaxFailures == 3
\* the largest max_retries given to the decorator around "op"
MaxN == 3
\* the largest backoff_factor given to the decorator around "op"
MaxBackoff == 2
\* agent graph: the replies of the model in one run of the graph
MaxTurns == 3
\* agent graph: the tool calls in one reply of the model
MaxToolCalls == 2
\* rate limiter: the largest value time.time() takes
MaxClock == 2
\* rate limiter: the calls of is_allowed in one run
MaxCalls == 4
\* rate limiter: the largest RATE_LIMIT_REQUESTS
MaxLimit == 2
\* rate limiter: the largest RATE_LIMIT_WINDOW
MaxWindow == 2
\* /analyze: the messages in one request
MaxMessages == 2

(***************************************************************************)
(* Program constants.                                                      *)
(***************************************************************************)
\* @retry_with_backoff(max_retries=3, ...) on every agent method
TaskMaxRetries == 3
\* backoff_factor: float = 1.0, the default the agents leave in place
TaskBackoffFactor == 1
\* truncate_conversation_history(messages, max_length=500)
MaxHistoryLength == 500

FanOut == {"triage", "sentiment", "event"}
Tasks == FanOut \cup {"risk", "response"}
Ids == Tasks \cup {"op"}

(***************************************************************************)
(* Python values.  None is the string "<None>" where the other values are  *)
(* strings; a JSON scalar is [type, n] so that isinstance can be asked.    *)
(* JSON true/false load as Python bools, which isinstance(x, int) accepts *)
(* and which compare as 1/0: for the score checks they are JInt(1)/JInt(0).*)
(***************************************************************************)
None == "<None>"
JInt(n) == [type |-> "int", n |-> n]
JStr(n) == [type |-> "str", n |-> n]
JNull == [type |-> "null", n |-> 0]

\* dict.get(key, default)
DictGet(d, key, default) == IF key \in DOMAIN d THEN d[key] ELSE default

\* exceptions: the class, ApplicationError's error_code and message, and
\* details["last_exception"] (<<>> when details is empty).  str(e) is message.
NoException == [cls |-> "None", error_code |-> "", message |-> <<>>,
                last_exception |-> <<>>]

ApplicationError(cls, message) ==
    [cls |-> cls, error_code |-> cls, message |-> message, last_exception |-> <<>>]

Str(e) == e.message

\* asyncio.CancelledError: what task.cancel() throws into a coroutine
CancelledError == [cls |-> "CancelledError", error_code |-> "", message |-> <<>>,
                   last_exception |-> <<>>]

\* the class tree with CancelledError under Exception, as before Python 3.8
Superclasses_CancelIsException(cls) ==
    CASE cls = "OpenAIError" -> {"OpenAIError", "ServiceError", "ApplicationError", "Exception"}
      [] cls = "ServiceError" -> {"ServiceError", "ApplicationError", "Exception"}
      [] cls = "ValidationError" -> {"ValidationError", "ApplicationError", "Exception"}
      [] cls = "KeyError" -> {"KeyError", "Exception"}
      [] cls = "CancelledError" -> {"CancelledError", "Exception", "BaseException"}
      [] OTHER -> {cls}

\* the classes an exception of class cls is an instance of
Superclasses(cls) ==
    CASE cls = "OpenAIError" -> {"OpenAIError", "ServiceError", "ApplicationError", "Exception"}
      [] cls = "ServiceError" -> {"ServiceError", "ApplicationError", "Exception"}
      [] cls = "ValidationError" -> {"ValidationError", "ApplicationError", "Exception"}
      [] cls = "KeyError" -> {"KeyError", "Exception"}
      [] cls = "CancelledError" -> {"CancelledError", "BaseException"}
      [] OTHER -> {cls}

\* an except clause that catches everything
Matches_Any(e, exceptions) == TRUE

\* except exceptions as e:
Matches(e, exceptions) == Superclasses(e.cls) \cap exceptions # {}


(***************************************************************************)
(* What the inference client gives back for one chat.completions.create    *)
(* call: it raises, or it returns a message whose content is JSON or not.  *)
(***************************************************************************)
TransportError == [status |-> "raises", json |-> FALSE, body |-> <<>>]
Malformed == [status |-> "returns", json |-> FALSE, body |-> <<>>]
Json(body) == [status |-> "returns", json |-> TRUE, body |-> body]

TriageReplies ==
    {TransportError, Malformed, Json(<<>>)}
    \cup {Json([primary_action |-> a]) : a \in {"FLAG", "IGNORE", "RESPOND", "ESCALATE"}}

RiskReplies ==
    {TransportError, Malformed}
    \cup {Json([risk_update |-> "High", risk_score |-> JInt(100)]),
          Json([risk_update |-> "Medium", risk_score |-> JInt(50)]),
          Json([risk_update |-> "Low", risk_score |-> JInt(0)]),
          Json([risk_update |-> "High", risk_score |-> JInt(20)]),
          Json([risk_update |-> "Critical", risk_score |-> JInt(90)]),
          Json([risk_update |-> "High", risk_score |-> JInt(101)]),
          Json([risk_update |-> "Low", risk_score |-> JInt(-1)]),
          Json([risk_update |-> "Medium", risk_score |-> JStr(50)]),
          Json([risk_update |-> "Medium"])}

SentimentReplies ==
    {TransportError, Malformed}
    \cup {Json([sentiment |-> "Positive", sentiment_score |-> JInt(0)]),
          Json([sentiment |-> "Negative", sentiment_score |-> JInt(100)]),
          Json([sentiment |-> "Positive", sentiment_score |-> JInt(80)]),
          Json([sentiment |-> "Angry", sentiment_score |-> JInt(90)]),
          Json([sentiment |-> "Negative", sentiment_score |-> JInt(101)]),
          Json([sentiment |-> "Positive", sentiment_score |-> JInt(-1)]),
          Json([sentiment |-> "Neutral", sentiment_score |-> JStr(50)])}

EventReplies ==
    {TransportError, Malformed}
    \cup {Json([has_event |-> "true", event_details |-> "2025-01-10 court",
                suggested_reminder |-> "reminder", internal_note |-> "note"]),
          Json([has_event |-> "false", event_details |-> None,
                suggested_reminder |-> None, internal_note |-> None]),
          Json([has_event |-> "false", event_details |-> "2025-01-10 court",
                suggested_reminder |-> "reminder", internal_note |-> None]),
          Json([has_event |-> "yes", event_details |-> None,
                suggested_reminder |-> None, internal_note |-> None])}

\* message.content of the response model: text, text in quotes, no text, or
\* None; the body is <<kind, the quote around the text, the text stripped>>
ResponseReplies ==
    {TransportError,
     [status |-> "returns", json |-> FALSE, body |-> <<"text", "", "On it.">>],
     [status |-> "returns", json |-> FALSE, body |-> <<"text", "\"", "On it.">>],
     [status |-> "returns", json |-> FALSE, body |-> <<"text", "", "">>],
     [status |-> "returns", json |-> FALSE, body |-> <<"null", "", "">>]}

Replies(t) ==
    CASE t = "triage" -> TriageReplies
      [] t = "risk" -> RiskReplies
      [] t = "sentiment" -> SentimentReplies
      [] t = "event" -> EventReplies
      [] t = "response" -> ResponseReplies

(***************************************************************************)
(* The agents: what one run of the wrapped method makes of a reply.        *)
(***************************************************************************)
Returns(v) == [ok |-> TRUE, value |-> v, exc |-> NoException]
Raises(e) == [ok |-> FALSE, value |-> None, exc |-> e]

\* raise OpenAIError(...): the two except clauses of every agent; the message
\* is the clause's text and, in place of str(e), the class of the error caught
OpenAIError(text, cause) == ApplicationError("OpenAIError", <<text, cause>>)

IsValidAction(action) == action \in {"FLAG", "IGNORE", "RESPOND"}

IsValidRiskLevel(risk_update) == risk_update \in {"High", "Medium", "Low"}

\* the range check without its upper end
IsValidRiskScore_NoUpper(risk_score) ==
    risk_score.type = "int" /\ 0 <= risk_score.n

IsValidRiskScore(risk_score) ==
    risk_score.type = "int" /\ 0 <= risk_score.n /\ risk_score.n <= 100

IsValidSentiment(sentiment) == sentiment \in {"Positive", "Neutral", "Negative"}

IsValidSentimentScore(sentiment_score) ==
    sentiment_score.type = "int" /\ 0 <= sentiment_score.n /\ sentiment_score.n <= 100

\* isinstance(has_event, bool)
IsBool(has_event) == has_event \in {"true", "false"}

TriageAnalyze(reply) ==
    IF reply.status = "raises"
    THEN Raises(OpenAIError("Triage analysis failed", "APIError"))
    ELSE IF ~reply.json
    THEN Raises(OpenAIError("Invalid response format from triage analysis", ""))
    ELSE LET action == DictGet(reply.body, "primary_action", None)
         IN  IF ~IsValidAction(action)
             THEN Raises(OpenAIError("Triage analysis failed", "ValidationError"))
             ELSE Returns(action)

RiskAnalyze(reply) ==
    IF reply.status = "raises"
    THEN Raises(OpenAIError("Risk analysis failed", "APIError"))
    ELSE IF ~reply.json
    THEN Raises(OpenAIError("Invalid response format from risk analysis", ""))
    ELSE LET risk_update == DictGet(reply.body, "risk_update", None)
             risk_score == DictGet(reply.body, "risk_score", JNull)
         IN  IF ~IsValidRiskLevel(risk_update)
             THEN Raises(OpenAIError("Risk analysis failed", "ValidationError"))
             ELSE IF ~IsValidRiskScore(risk_score)
             THEN Raises(OpenAIError("Risk analysis failed", "ValidationError"))
             ELSE Returns([risk_update |-> risk_update, risk_score |-> risk_score])

SentimentAnalyze(reply) ==
    IF reply.status = "raises"
    THEN Raises(OpenAIError("Sentiment analysis failed", "APIError"))
    ELSE IF ~reply.json
    THEN Raises(OpenAIError("Invalid response format from sentiment analysis", ""))
    ELSE LET sentiment == DictGet(reply.body, "sentiment", None)
             sentiment_score == DictGet(reply.body, "sentiment_score", JNull)
         IN  IF ~IsValidSentiment(sentiment)
             THEN Raises(OpenAIError("Sentiment analysis failed", "ValidationError"))
             ELSE IF ~IsValidSentimentScore(sentiment_score)
             THEN Raises(OpenAIError("Sentiment analysis failed", "ValidationError"))
             ELSE Returns([sentiment |-> sentiment, sentiment_score |-> sentiment_score])

EventAnalyze(reply) ==
    IF reply.status = "raises"
    THEN Raises(OpenAIError("Event detection failed", "APIError"))
    ELSE IF ~reply.json
    THEN Raises(OpenAIError("Invalid response format from event detection", ""))
    ELSE LET has_event == DictGet(reply.body, "has_event", "false")
         IN  IF ~IsBool(has_event)
             THEN Raises(OpenAIError("Event detection failed", "ValidationError"))
             ELSE Returns(reply.body)

\* generated_response.strip().strip('"').strip("'") ; None has no strip
ResponseText(reply) ==
    IF reply.status = "raises"
    THEN Raises(OpenAIError("Response generation failed", "APIError"))
    ELSE IF reply.body[1] = "null"
    THEN Raises(OpenAIError("Response generation failed", "AttributeError"))
    ELSE Returns(reply.body[3])

\* the gate without its FLAG and High case
SkipResponse_IgnoreOnly(primary_action, risk_update) ==
    \/ primary_action = "IGNORE"
    \/ primary_action \notin {"RESPOND", "FLAG"}

\* the gate closed for every FLAG
SkipResponse_FlagAny(primary_action, risk_update) ==
    \/ primary_action \in {"FLAG", "IGNORE"}
    \/ primary_action \notin {"RESPOND", "FLAG"}

\* the first two ifs of ResponseGenerator.generate: no reply is generated
SkipResponse(primary_action, risk_update) ==
    \/ (primary_action = "FLAG" /\ risk_update = "High")
    \/ primary_action = "IGNORE"
    \/ primary_action \notin {"RESPOND", "FLAG"}

\* a reply each agent accepts
GoodReply(t) ==
    CASE t = "triage" -> Json([primary_action |-> "RESPOND"])
      [] t = "risk" -> Json([risk_update |-> "Medium", risk_score |-> JInt(50)])
      [] t = "sentiment" -> Json([sentiment |-> "Negative", sentiment_score |-> JInt(100)])
      [] t = "event" -> Json([has_event |-> "false", event_details |-> None,
                              suggested_reminder |-> None, internal_note |-> None])
      [] t = "response" ->
            [status |-> "returns", json |-> FALSE, body |-> <<"text", "", "On it.">>]

\* the text of the last except clause of each agent
FailedText(t) ==
    CASE t = "triage" -> "Triage analysis failed"
      [] t = "risk" -> "Risk analysis failed"
      [] t = "sentiment" -> "Sentiment analysis failed"
      [] t = "event" -> "Event detection failed"
      [] t = "response" -> "Response generation failed"

\* an agent suspended in its inference call has e thrown into it: its
\* "except Exception" clause wraps e if e is an Exception, else e goes through
AgentThrow(t, e) ==
    IF Matches(e, {"Exception"})
    THEN Raises(OpenAIError(FailedText(t), e.cls))
    ELSE Raises(e)

\* a reply each agent rejects
BadReply(t) ==
    CASE t = "triage" -> Json([primary_action |-> "ESCALATE"])
      [] t = "risk" -> Json([risk_update |-> "High", risk_score |-> JInt(101)])
      [] t = "sentiment" -> Json([sentiment |-> "Angry", sentiment_score |-> JInt(90)])
      [] t = "event" -> Json([has_event |-> "yes", event_details |-> None,
                              suggested_reminder |-> None, internal_note |-> None])
      [] t = "response" ->
            [status |-> "returns", json |-> FALSE, body |-> <<"null", "", "">>]

AgentRun(t, reply) ==
    CASE t = "triage" -> TriageAnalyze(reply)
      [] t = "risk" -> RiskAnalyze(reply)
      [] t = "sentiment" -> SentimentAnalyze(reply)
      [] t = "event" -> EventAnalyze(reply)
      [] t = "response" -> ResponseText(reply)


(***************************************************************************)
(* retry_with_backoff.async_wrapper: the locals of one call are the record *)
(* [state, attempt, last_exception]; state says where the call is          *)
(* suspended ("calling": inside the wrapped function, "sleeping": inside   *)
(* asyncio.sleep) or how it ended ("returned", "raised").                  *)
(***************************************************************************)
NotCalled == [state |-> "idle", attempt |-> 0, last_exception |-> NoException]
\* a call that starts with the loop variable at one
FirstAttempt_One == [state |-> "calling", attempt |-> 1, last_exception |-> NoException]

FirstAttempt == [state |-> "calling", attempt |-> 0, last_exception |-> NoException]
Unresolved == Raises(NoException)
Resolved(state) == [state |-> state, attempt |-> 0, last_exception |-> NoException]

\* for attempt in range(max_retries + 1)
InRange(attempt, max_retries) == attempt < max_retries + 1

\* the loop gives up one attempt early
IsLastAttempt_OneLess(attempt, max_retries) == attempt >= max_retries - 1

\* if attempt == max_retries: break
IsLastAttempt(attempt, max_retries) == attempt = max_retries

\* a delay that grows linearly
Delay_Linear(backoff_factor, attempt) == backoff_factor * (attempt + 1)

\* delay = backoff_factor * (2 ** attempt)
Delay(backoff_factor, attempt) == backoff_factor * (2 ^ attempt)

\* raise ServiceError(f"Function ... failed after {max_retries + 1} attempts", ...)
ExhaustedError(func, max_retries, last_exception) ==
    [cls |-> "ServiceError", error_code |-> "MAX_RETRIES_EXCEEDED",
     message |-> <<func, "failed after attempts", max_retries + 1>>,
     last_exception |-> Str(last_exception)]

\* only the first error is kept
Remember_First(last_exception, e) ==
    IF last_exception = NoException THEN e ELSE last_exception

\* last_exception = e
Remember(last_exception, e) == e

\* One pass through the body of the for loop, from the point where the wrapped
\* function has come back with res: the locals after it, what the call resolved
\* to, and the delay it now sleeps for.  A call that returns or raises leaves
\* no locals behind.
AfterAttempt(r, res, d) ==
    IF res.ok
    THEN [retrier |-> Resolved("returned"),
          outcome |-> Returns(res.value), sleep |-> <<>>]
    ELSE IF ~Matches(res.exc, d.exceptions)
    THEN [retrier |-> Resolved("raised"),
          outcome |-> Raises(res.exc), sleep |-> <<>>]
    ELSE LET last == Remember(r.last_exception, res.exc)
         IN  IF IsLastAttempt(r.attempt, d.max_retries)
             THEN [retrier |-> Resolved("raised"),
                   outcome |-> Raises(ExhaustedError(d.func, d.max_retries, last)),
                   sleep |-> <<>>]
             ELSE [retrier |-> [r EXCEPT !.state = "sleeping", !.last_exception = last],
                   outcome |-> Unresolved,
                   sleep |-> <<Delay(d.backoff_factor, r.attempt)>>]

\* A wrapper call suspended in the wrapped function ("calling") or in
\* asyncio.sleep ("sleeping") has e thrown into it.  The sleep stands in the
\* except clause, outside the try, so e leaves the wrapper from there
\* whatever its class.  A call that leaves with CancelledError is "cancelled".
Left(res) ==
    LET nxt == [retrier |-> Resolved("raised"), outcome |-> res, sleep |-> <<>>]
    IN  IF res.exc.cls = "CancelledError"
        THEN [nxt EXCEPT !.retrier = Resolved("cancelled")]
        ELSE nxt

WrapperThrow(i, r, e, d) ==
    IF r.state = "sleeping"
    THEN Left(Raises(e))
    ELSE LET nxt == AfterAttempt(r, AgentThrow(i, e), d)
         IN  IF nxt.retrier.state = "raised" THEN Left(nxt.outcome) ELSE nxt

\* the next pass with the loop variable left as it was
NextAttempt_SameAttempt(r) == [r EXCEPT !.state = "calling"]

\* for attempt in range(max_retries + 1): the next pass
NextAttempt(r) == [r EXCEPT !.state = "calling", !.attempt = r.attempt + 1]


(***************************************************************************)
(* sync_wrapper, the wrapper retry_with_backoff gives a plain function.    *)
(* It has a loop of its own, and sleeps in time.sleep.                     *)
(***************************************************************************)
\* for attempt in range(max_retries + 1)
SyncInRange(attempt, max_retries) == attempt < max_retries + 1

\* if attempt == max_retries: break
SyncIsLastAttempt(attempt, max_retries) == attempt = max_retries

\* the same delay before every retry
SyncDelay_Constant(backoff_factor, attempt) == backoff_factor

\* delay = backoff_factor * (2 ** attempt)
SyncDelay(backoff_factor, attempt) == backoff_factor * (2 ^ attempt)

\* raise ServiceError(f"Function ... failed after {max_retries + 1} attempts", ...)
SyncExhaustedError(func, max_retries, last_exception) ==
    [cls |-> "ServiceError", error_code |-> "MAX_RETRIES_EXCEEDED",
     message |-> <<func, "failed after attempts", max_retries + 1>>,
     last_exception |-> Str(last_exception)]

\* one pass through the body of the loop of sync_wrapper, from the point where
\* the wrapped function has come back with res
SyncAfterAttempt(r, res, d) ==
    IF res.ok
    THEN [retrier |-> Resolved("returned"),
          outcome |-> Returns(res.value), sleep |-> <<>>]
    ELSE IF ~Matches(res.exc, d.exceptions)
    THEN [retrier |-> Resolved("raised"),
          outcome |-> Raises(res.exc), sleep |-> <<>>]
    ELSE IF SyncIsLastAttempt(r.attempt, d.max_retries)
    THEN [retrier |-> Resolved("raised"),
          outcome |-> Raises(SyncExhaustedError(d.func, d.max_retries, res.exc)),
          sleep |-> <<>>]
    ELSE [retrier |-> [r EXCEPT !.state = "sleeping", !.last_exception = res.exc],
          outcome |-> Unresolved,
          sleep |-> <<SyncDelay(d.backoff_factor, r.attempt)>>]

\* time.sleep has returned: the next pass of the loop, or the code after it
SyncAfterSleep(r, d) ==
    IF SyncInRange(r.attempt + 1, d.max_retries)
    THEN [retrier |-> [r EXCEPT !.state = "calling", !.attempt = r.attempt + 1],
          outcome |-> Unresolved]
    ELSE [retrier |-> Resolved("raised"),
          outcome |-> Raises(SyncExhaustedError(d.func, d.max_retries,
                                                r.last_exception))]

\* the decorator arguments of the five agent methods
AgentDecorator ==
    [max_retries |-> TaskMaxRetries, backoff_factor |-> TaskBackoffFactor,
     exceptions |-> {"Exception"}]

\* every wrapped function under a name of its own
FuncName_Qualified(i) == i

\* func.__name__ of the function a wrapper call runs: four agents define
\* analyze, the response generator defines generate
FuncName(i) ==
    CASE i = "response" -> "generate"
      [] i = "op" -> "op"
      [] OTHER -> "analyze"

\* what the closure of the wrapper around function i holds
Wrapper(i) ==
    [func |-> FuncName(i), max_retries |-> deco.max_retries,
     backoff_factor |-> deco.backoff_factor, exceptions |-> deco.exceptions]

(***************************************************************************)
(* ChatOrchestrator.analyze_message                                        *)
(***************************************************************************)
Msg(c) == [sender |-> "client", content |-> c]
NoContentMsg == [sender |-> "client"]

Histories ==
    {<<>>, <<Msg("")>>, <<NoContentMsg>>, <<Msg(None)>>, <<Msg("hello"), Msg("")>>,
     <<Msg(" ")>>, <<Msg(""), Msg("hello")>>}

\* conversation_history[-1].get("content", "")
CurrentMessage(history) == DictGet(history[Len(history)], "content", "")

\* str.strip() on the texts of Histories: " " is the one it changes
Strip(s) == IF s = " " THEN "" ELSE s

\* a test for None only
Falsy_NoneOnly(x) == x = None

\* not x, for x a string or None
Falsy(x) == x = "" \/ x = None

\* the precondition without the check of the last message
PreconditionError_HistoryOnly(history) ==
    IF history = <<>>
    THEN ApplicationError("ValidationError", <<"Conversation history cannot be empty">>)
    ELSE NoException

\* the two checks ahead of the try block
PreconditionError(history) ==
    IF history = <<>>
    THEN ApplicationError("ValidationError", <<"Conversation history cannot be empty">>)
    ELSE IF Falsy(CurrentMessage(history))
    THEN ApplicationError("ValidationError", <<"Current message content is empty">>)
    ELSE NoException

\* a race: analyze_message goes on as soon as triage has returned
GatherReady_TriageOnly(states) == states["triage"] = "returned"

\* gather as with return_exceptions=True: it returns once all have ended
GatherReady_Settled(states) ==
    \A t \in FanOut : states[t] \in {"returned", "raised"}

\* await asyncio.gather(...) returns: every awaitable has returned
GatherReady(states) == \A t \in FanOut : states[t] = "returned"

\* a gather that never raises
GatherFailed_Never(states) == FALSE

\* await asyncio.gather(...) raises: one awaitable has raised
GatherFailed(states) == \E t \in FanOut : states[t] = "raised"

\* the risk agent is told FLAG whatever triage said
RiskInput_AlwaysFlag(primary_action) == "FLAG"

\* the argument analyze_message gives risk_agent.analyze for primary_action
RiskInput(primary_action) == primary_action

NoResult == [action |-> None]

\* the dict with the two scores in each other's place
Assemble_ScoresSwapped(primary_action, risk_result, sentiment_result, response_to_send, event_detection) ==
    [action |-> primary_action,
     risk_update |-> risk_result.risk_update,
     risk_score |-> sentiment_result.sentiment_score,
     sentiment |-> sentiment_result.sentiment,
     sentiment_score |-> risk_result.risk_score,
     response_to_send |-> response_to_send,
     event_detection |-> event_detection,
     full_analysis |-> [primary_action |-> primary_action,
                        risk_update |-> risk_result.risk_update,
                        sentiment |-> sentiment_result.sentiment,
                        event_detection |-> event_detection]]

\* the dict assembled at the end of the try block
Assemble(primary_action, risk_result, sentiment_result, response_to_send, event_detection) ==
    [action |-> primary_action,
     risk_update |-> risk_result.risk_update,
     risk_score |-> risk_result.risk_score,
     sentiment |-> sentiment_result.sentiment,
     sentiment_score |-> sentiment_result.sentiment_score,
     response_to_send |-> response_to_send,
     event_detection |-> event_detection,
     full_analysis |-> [primary_action |-> primary_action,
                        risk_update |-> risk_result.risk_update,
                        sentiment |-> sentiment_result.sentiment,
                        event_detection |-> event_detection]]

\* the safe default with the fields of a harmless message
Fallback_Harmless(e) ==
    [action |-> "RESPOND",
     risk_update |-> "Low",
     risk_score |-> JInt(0),
     sentiment |-> "Neutral",
     sentiment_score |-> JInt(50),
     response_to_send |-> None,
     event_detection |-> [has_event |-> "false"],
     full_analysis |-> [error |-> Str(e)]]

\* the dict returned by the except clause
Fallback(e) ==
    [action |-> "FLAG",
     risk_update |-> "High",
     risk_score |-> JInt(100),
     sentiment |-> "Neutral",
     sentiment_score |-> JInt(50),
     response_to_send |-> None,
     event_detection |-> [has_event |-> "false"],
     full_analysis |-> [error |-> Str(e)]]


(***************************************************************************)
(* Initial states: a call of analyze_message about to start, or a call of  *)
(* the decorated function "op" about to start.                             *)
(***************************************************************************)
InitCommon ==
    /\ retrier = [i \in Ids |-> NotCalled]
    /\ outcome = [i \in Ids |-> Unresolved]
    /\ invocations = [i \in Ids |-> 0]
    /\ api_calls = [t \in Tasks |-> 0]
    /\ slept = [i \in Ids |-> <<>>]
    /\ call_args = [t \in Tasks |-> <<>>]
    /\ result = NoResult
    /\ error = NoException
    /\ failures = [i \in Ids |-> 0]
    /\ accepted = [t \in Tasks |-> <<>>]
    /\ op_script = <<>>
    /\ sync = [retrier |-> NotCalled, outcome |-> Unresolved,
               invocations |-> 0, slept |-> <<>>]

\* no response yet
NoResponse == [status_code |-> 0, content |-> None]

\* the agent graph is not run
GraphOff == node = "off" /\ messages = <<>>

\* no HTTP request has come in
LimiterOff ==
    /\ clock = 0
    /\ requests = [key \in {} |-> <<>>]
    /\ settings = [RATE_LIMIT_REQUESTS |-> 0, RATE_LIMIT_WINDOW |-> 0,
                   ENABLE_RATE_LIMITING |-> FALSE]
    /\ calls = <<>>
    /\ served = <<>>

\* analyze_message is called as it is, not through the /analyze route
RouteOff ==
    /\ conversation = <<>>
    /\ route = "off"
    /\ http_response = NoResponse
    /\ background_tasks = <<>>
    /\ log_records = <<>>

InitAnalyze ==
    /\ conversation_history \in Histories
    /\ pc = "start"
    /\ deco = AgentDecorator
    /\ inference \in {"arbitrary", "flaky"}
    /\ InitCommon
    /\ GraphOff /\ LimiterOff /\ RouteOff

InitOp ==
    /\ conversation_history = <<>>
    /\ pc = "off"
    /\ deco \in [max_retries : 0..MaxN, backoff_factor : 1..MaxBackoff,
                 exceptions : {{"Exception"}, {"ServiceError"}}]
    /\ inference = "arbitrary"
    /\ InitCommon
    /\ GraphOff /\ LimiterOff /\ RouteOff

Init == InitAnalyze \/ InitOp

(***************************************************************************)
(* analyze_message, lines 401-420: the precondition, then the three        *)
(* coroutines handed to asyncio.gather, each running up to its first       *)
(* await of the inference client.                                          *)
(***************************************************************************)
RejectInput ==
    /\ pc = "start"
    /\ PreconditionError(conversation_history) # NoException
    /\ pc' = "raised"
    /\ error' = PreconditionError(conversation_history)
    /\ UNCHANGED <<conversation_history, retrier, outcome, invocations, api_calls,
                   slept, call_args, result, failures, accepted, deco, inference, op_script, sync, serverVars>>

LaunchFanOut ==
    /\ pc = "start"
    /\ PreconditionError(conversation_history) = NoException
    /\ pc' = "gather"
    /\ retrier' = [i \in Ids |-> IF i \in FanOut THEN FirstAttempt ELSE retrier[i]]
    /\ invocations' = [i \in Ids |-> IF i \in FanOut THEN 1 ELSE invocations[i]]
    /\ api_calls' = [t \in Tasks |-> IF t \in FanOut THEN 1 ELSE api_calls[t]]
    /\ call_args' = [t \in Tasks |->
                        IF t \in FanOut THEN <<CurrentMessage(conversation_history)>>
                        ELSE call_args[t]]
    /\ UNCHANGED <<conversation_history, outcome, slept, result, error, failures, accepted, deco, inference, op_script, sync, serverVars>>

(***************************************************************************)
(* An inference call of a gathered agent comes back: the agent method      *)
(* finishes, and the wrapper returns, raises or goes to sleep.  The agent  *)
(* runs in a task of its own, so analyze_message resumes in a later step.  *)
(***************************************************************************)
\* failed attempts in this call of analyze_message so far
FailuresInjected ==
    failures["triage"] + failures["sentiment"] + failures["event"]
    + failures["risk"] + failures["response"]

\* The client of a run is "arbitrary" (any reply at any call, with at most
\* MaxFailures failed attempts in the run) or "flaky" (each call raises, or
\* gives the reply the agent rejects or the one it accepts, with any number
\* of failed attempts).
Offered(t) ==
    IF inference = "flaky"
    THEN {TransportError, BadReply(t), GoodReply(t)}
    ELSE Replies(t)

MayFail == inference = "flaky" \/ FailuresInjected < MaxFailures

FanOutCallCompletes(t, reply) ==
    /\ t \in FanOut
    /\ retrier[t].state = "calling"
    /\ LET res == AgentRun(t, reply)
           nxt == AfterAttempt(retrier[t], res, Wrapper(t))
       IN  /\ ~res.ok => MayFail
           /\ failures' = [failures EXCEPT ![t] = IF res.ok THEN @ ELSE @ + 1]
           /\ accepted' = [accepted EXCEPT ![t] = IF res.ok THEN reply.body ELSE @]
           /\ retrier' = [retrier EXCEPT ![t] = nxt.retrier]
           /\ outcome' = [outcome EXCEPT ![t] = nxt.outcome]
           /\ slept' = [slept EXCEPT ![t] = @ \o nxt.sleep]
    /\ UNCHANGED <<conversation_history, pc, invocations, api_calls, call_args,
                   result, error, deco, inference, op_script, sync, serverVars>>

(***************************************************************************)
(* asyncio.sleep(delay) is over: the for loop goes to its next pass and     *)
(* calls the wrapped function again (generate, called again with the       *)
(* arguments that took it past its gate, awaits the client again).  Were   *)
(* range(max_retries + 1) used up here, the loop would end and the wrapper  *)
(* raise its ServiceError, into the except clause of analyze_message when   *)
(* it is the risk agent or the response generator that is awaited.          *)
(***************************************************************************)
BackoffElapsed(i) ==
    /\ retrier[i].state = "sleeping"
    /\ IF InRange(retrier[i].attempt + 1, deco.max_retries)
       THEN /\ retrier' = [retrier EXCEPT ![i] = NextAttempt(@)]
            /\ invocations' = [invocations EXCEPT ![i] = @ + 1]
            /\ api_calls' = [t \in Tasks |->
                                IF t = i THEN api_calls[t] + 1 ELSE api_calls[t]]
            /\ UNCHANGED <<pc, outcome, result>>
       ELSE LET e == ExhaustedError(FuncName(i), deco.max_retries, retrier[i].last_exception)
            IN  /\ retrier' = [retrier EXCEPT ![i] = Resolved("raised")]
                /\ outcome' = [outcome EXCEPT ![i] = Raises(e)]
                /\ IF i \in {"risk", "response"}
                   THEN pc' = "returned" /\ result' = Fallback(e)
                   ELSE UNCHANGED <<pc, result>>
                /\ UNCHANGED <<invocations, api_calls>>
    /\ UNCHANGED <<conversation_history, slept, call_args, error, failures,
                   accepted, deco, inference, op_script, sync, serverVars>>

(***************************************************************************)
(* analyze_message resumes from asyncio.gather.                            *)
(***************************************************************************)
States == [i \in Ids |-> retrier[i].state]

\* all three returned: risk_agent.analyze(current_message, primary_action)
LaunchRisk ==
    /\ pc = "gather"
    /\ GatherReady(States)
    /\ pc' = "risk"
    /\ retrier' = [retrier EXCEPT !["risk"] = FirstAttempt]
    /\ invocations' = [invocations EXCEPT !["risk"] = 1]
    /\ api_calls' = [api_calls EXCEPT !["risk"] = 1]
    /\ call_args' = [call_args EXCEPT !["risk"] =
                        <<CurrentMessage(conversation_history),
                          RiskInput(outcome["triage"].value)>>]
    /\ UNCHANGED <<conversation_history, outcome, slept, result, error, failures, accepted, deco, inference, op_script, sync, serverVars>>

\* one of them raised: the except clause returns the safe default
GatherRaises ==
    /\ pc = "gather"
    /\ GatherFailed(States)
    /\ \E t \in FanOut :
          /\ retrier[t].state = "raised"
          /\ result' = Fallback(outcome[t].exc)
    /\ pc' = "returned"
    /\ UNCHANGED <<conversation_history, retrier, outcome, invocations, api_calls,
                   slept, call_args, error, failures, accepted, deco, inference, op_script, sync, serverVars>>


(***************************************************************************)
(* The inference call of the risk agent comes back.  analyze_message       *)
(* awaits this coroutine directly, so in the same step it goes on to the   *)
(* except clause, or to response_generator.generate, which either returns  *)
(* None at once (and the result is assembled) or awaits the client.        *)
(***************************************************************************)
RiskCallCompletes(reply) ==
    /\ pc = "risk"
    /\ retrier["risk"].state = "calling"
    /\ LET res == AgentRun("risk", reply)
           nxt == AfterAttempt(retrier["risk"], res, Wrapper("risk"))
           primary_action == outcome["triage"].value
       IN  /\ ~res.ok => MayFail
           /\ failures' = [failures EXCEPT !["risk"] = IF res.ok THEN @ ELSE @ + 1]
           /\ accepted' = [accepted EXCEPT !["risk"] = IF res.ok THEN reply.body ELSE @]
           /\ slept' = [slept EXCEPT !["risk"] = @ \o nxt.sleep]
           /\ IF nxt.retrier.state = "sleeping"
              THEN /\ retrier' = [retrier EXCEPT !["risk"] = nxt.retrier]
                   /\ outcome' = [outcome EXCEPT !["risk"] = nxt.outcome]
                   /\ UNCHANGED <<pc, result, invocations, api_calls, call_args>>
              ELSE IF nxt.retrier.state = "raised"
              THEN /\ retrier' = [retrier EXCEPT !["risk"] = nxt.retrier]
                   /\ outcome' = [outcome EXCEPT !["risk"] = nxt.outcome]
                   /\ result' = Fallback(nxt.outcome.exc)
                   /\ pc' = "returned"
                   /\ UNCHANGED <<invocations, api_calls, call_args>>
              ELSE LET risk_result == nxt.outcome.value
                   IN  /\ call_args' = [call_args EXCEPT !["response"] =
                              <<conversation_history, primary_action,
                                risk_result.risk_update>>]
                       /\ invocations' = [invocations EXCEPT !["response"] = 1]
                       /\ IF SkipResponse(primary_action, risk_result.risk_update)
                          THEN /\ retrier' = [retrier EXCEPT
                                    !["risk"] = nxt.retrier,
                                    !["response"] = Resolved("returned")]
                               /\ outcome' = [outcome EXCEPT
                                    !["risk"] = nxt.outcome,
                                    !["response"] = Returns(None)]
                               /\ result' = Assemble(primary_action, risk_result,
                                                     outcome["sentiment"].value, None,
                                                     outcome["event"].value)
                               /\ pc' = "returned"
                               /\ UNCHANGED api_calls
                          ELSE /\ retrier' = [retrier EXCEPT
                                    !["risk"] = nxt.retrier,
                                    !["response"] = FirstAttempt]
                               /\ outcome' = [outcome EXCEPT !["risk"] = nxt.outcome]
                               /\ api_calls' = [api_calls EXCEPT !["response"] = 1]
                               /\ pc' = "response"
                               /\ UNCHANGED result
    /\ UNCHANGED <<conversation_history, error, deco, inference, op_script, sync, serverVars>>

(***************************************************************************)
(* The inference call of the response generator comes back; on a return    *)
(* analyze_message assembles its result in the same step.                  *)
(***************************************************************************)
ResponseCallCompletes(reply) ==
    /\ pc = "response"
    /\ retrier["response"].state = "calling"
    /\ LET res == AgentRun("response", reply)
           nxt == AfterAttempt(retrier["response"], res, Wrapper("response"))
       IN  /\ ~res.ok => MayFail
           /\ failures' = [failures EXCEPT !["response"] = IF res.ok THEN @ ELSE @ + 1]
           /\ accepted' = [accepted EXCEPT !["response"] = IF res.ok THEN reply.body ELSE @]
           /\ slept' = [slept EXCEPT !["response"] = @ \o nxt.sleep]
           /\ retrier' = [retrier EXCEPT !["response"] = nxt.retrier]
           /\ outcome' = [outcome EXCEPT !["response"] = nxt.outcome]
           /\ IF nxt.retrier.state = "sleeping"
              THEN UNCHANGED <<pc, result>>
              ELSE IF nxt.retrier.state = "raised"
              THEN /\ result' = Fallback(nxt.outcome.exc)
                   /\ pc' = "returned"
              ELSE /\ result' = Assemble(outcome["triage"].value, outcome["risk"].value,
                                         outcome["sentiment"].value, nxt.outcome.value,
                                         outcome["event"].value)
                   /\ pc' = "returned"
    /\ UNCHANGED <<conversation_history, invocations, api_calls, call_args, error, deco, inference, op_script, sync, serverVars>>

(***************************************************************************)
(* The task running analyze_message is cancelled while analyze_message is  *)
(* suspended.  Suspended in asyncio.gather, the cancellation goes to the   *)
(* three tasks gather made, unless gather is already done (one of them has *)
(* raised and analyze_message has not resumed yet), and CancelledError is  *)
(* raised in analyze_message.  Suspended in the risk agent or the response *)
(* generator, CancelledError is thrown at the innermost await and reaches  *)
(* analyze_message if the agent and its wrapper let it through.            *)
(***************************************************************************)
Awaited ==
    CASE pc = "gather" ->
            IF GatherFailed(States) THEN {}
            ELSE {t \in FanOut : retrier[t].state \in {"calling", "sleeping"}}
      [] pc = "risk" -> {"risk"}
      [] pc = "response" -> {"response"}
      [] OTHER -> {}

Cancel ==
    /\ pc \in {"gather", "risk", "response"}
    /\ LET thrown == [t \in Awaited |->
                         WrapperThrow(t, retrier[t], CancelledError, Wrapper(t))]
           reaches == \/ pc = "gather"
                      \/ \A t \in Awaited : thrown[t].retrier.state = "cancelled"
       IN  /\ retrier' = [i \in Ids |->
                            IF i \in Awaited THEN thrown[i].retrier ELSE retrier[i]]
           /\ outcome' = [i \in Ids |->
                            IF i \in Awaited THEN thrown[i].outcome ELSE outcome[i]]
           /\ slept' = [i \in Ids |->
                          IF i \in Awaited THEN slept[i] \o thrown[i].sleep ELSE slept[i]]
           /\ IF ~reaches
              THEN UNCHANGED <<pc, result, error>>
              ELSE IF Matches(CancelledError, {"Exception"})
              THEN pc' = "returned" /\ result' = Fallback(CancelledError)
                   /\ UNCHANGED error
              ELSE pc' = "cancelled" /\ error' = CancelledError /\ UNCHANGED result
    /\ UNCHANGED <<conversation_history, invocations, api_calls, call_args, failures,
                   accepted, deco, inference, op_script, sync, serverVars>>

(***************************************************************************)
(* A function decorated by retry_with_backoff(max_retries, backoff_factor, *)
(* exceptions), called once.  Each run of it returns, raises an error of   *)
(* the application (an OpenAIError) or raises a KeyError; the message of   *)
(* an error tells which run raised it.                                     *)
(***************************************************************************)
OpResults(k) ==
    {Returns("value"),
     Raises(ApplicationError("OpenAIError", <<"op failed", k>>)),
     Raises([cls |-> "KeyError", error_code |-> "", message |-> <<"missing", k>>,
             last_exception |-> <<>>])}

OpCall ==
    /\ pc = "off"
    /\ retrier["op"].state = "idle"
    /\ retrier' = [retrier EXCEPT !["op"] = FirstAttempt]
    /\ invocations' = [invocations EXCEPT !["op"] = 1]
    /\ UNCHANGED <<conversation_history, pc, outcome, api_calls, slept, call_args,
                   result, error, failures, accepted, deco, inference, op_script, sync, serverVars>>

\* The k-th run of the function does res.  The two wrappers are given the same
\* function: the run one of them is the first to make is free in what it does,
\* and the same run made by the other does the same.
RunDoes(k, res) ==
    /\ res \in OpResults(k)
    /\ k <= Len(op_script) => res = op_script[k]

Script(k, res) == IF k <= Len(op_script) THEN op_script ELSE Append(op_script, res)

OpCompletes(res) ==
    /\ retrier["op"].state = "calling"
    /\ RunDoes(invocations["op"], res)
    /\ op_script' = Script(invocations["op"], res)
    /\ LET nxt == AfterAttempt(retrier["op"], res, Wrapper("op"))
       IN  /\ retrier' = [retrier EXCEPT !["op"] = nxt.retrier]
           /\ outcome' = [outcome EXCEPT !["op"] = nxt.outcome]
           /\ slept' = [slept EXCEPT !["op"] = @ \o nxt.sleep]
           /\ failures' = [failures EXCEPT !["op"] = IF res.ok THEN @ ELSE @ + 1]
    /\ UNCHANGED <<conversation_history, pc, invocations, api_calls, call_args,
                   result, error, accepted, deco, inference, sync, serverVars>>

pipelineVars == <<conversation_history, pc, retrier, outcome, invocations, api_calls,
                  slept, call_args, result, error, failures, accepted>>

\* the decorated function is a plain one, and is called once
SyncOpCall ==
    /\ pc = "off"
    /\ sync.retrier.state = "idle"
    /\ sync' = [sync EXCEPT !.retrier = FirstAttempt, !.invocations = 1]
    /\ UNCHANGED <<pipelineVars, deco, inference, op_script, serverVars>>

SyncOpCompletes(res) ==
    /\ sync.retrier.state = "calling"
    /\ RunDoes(sync.invocations, res)
    /\ op_script' = Script(sync.invocations, res)
    /\ LET nxt == SyncAfterAttempt(sync.retrier, res, Wrapper("op"))
       IN  sync' = [sync EXCEPT !.retrier = nxt.retrier, !.outcome = nxt.outcome,
                                !.slept = @ \o nxt.sleep]
    /\ UNCHANGED <<pipelineVars, deco, inference, serverVars>>

SyncSleepOver ==
    /\ sync.retrier.state = "sleeping"
    /\ LET nxt == SyncAfterSleep(sync.retrier, Wrapper("op"))
       IN  sync' = [sync EXCEPT !.retrier = nxt.retrier, !.outcome = nxt.outcome,
                                !.invocations =
                                    IF nxt.retrier.state = "calling" THEN @ + 1 ELSE @]
    /\ UNCHANGED <<pipelineVars, deco, inference, op_script, serverVars>>

\* the steps analyze_message and its agents take by themselves
AnalysisStep ==
    \/ LaunchFanOut
    \/ \E t \in FanOut : \E reply \in Offered(t) : FanOutCallCompletes(t, reply)
    \/ \E i \in Ids : BackoffElapsed(i)
    \/ LaunchRisk
    \/ GatherRaises
    \/ \E reply \in Offered("risk") : RiskCallCompletes(reply)
    \/ \E reply \in Offered("response") : ResponseCallCompletes(reply)

AgentStep == RejectInput \/ AnalysisStep

\* the steps of one call of analyze_message
PipelineStep == AgentStep \/ Cancel

Next ==
    \/ PipelineStep
    \/ OpCall
    \/ \E res \in OpResults(invocations["op"]) : OpCompletes(res)
    \/ SyncOpCall
    \/ \E res \in OpResults(sync.invocations) : SyncOpCompletes(res)
    \/ SyncSleepOver

Spec == Init /\ [][Next]_vars

\* the orchestrator and the decorated function stand by
PipelineOff ==
    /\ conversation_history = <<>>
    /\ pc = "off"
    /\ deco = AgentDecorator
    /\ inference = "arbitrary"
    /\ InitCommon

pipelineAll == <<pipelineVars, deco, inference, op_script, sync>>

(***************************************************************************)
(* The agent graph (features/agent/graph.py): the agent node asks the      *)
(* model, which answers with an AIMessage; should_continue sends a message *)
(* with tool calls to the tools node and ends the run on one without; the  *)
(* tools node runs the calls and goes back to the agent node.  The         *)
(* arguments of a call play no part but in what the tool does with them.   *)
(***************************************************************************)
\* tool_map = {tool.name: tool for tool in agent_tools}
ToolMap == {"analyze_chat_message", "generate_micro_insight", "generate_outbound_message"}

\* the names the model puts in its tool calls: a tool it was given, and one it
\* was not
CalledNames == {"analyze_chat_message", "lookup_client"}

HumanMessage == [type |-> "human"]
AIMessage(tool_calls) == [type |-> "ai", tool_calls |-> tool_calls]
ToolMessage(tool_call_id, content, name) ==
    [type |-> "tool", tool_call_id |-> tool_call_id, content |-> content, name |-> name]

Last(seq) == seq[Len(seq)]

AiCount(msgs) == Cardinality({j \in 1..Len(msgs) : msgs[j].type = "ai"})

\* the replies of the model at its turn-th turn: up to MaxToolCalls tool calls,
\* each with an id of its own
ModelReplies(turn) ==
    UNION {{AIMessage([k \in 1..n |-> [id |-> <<turn, k>>, name |-> names[k]]]) :
               names \in [1..n -> CalledNames]} : n \in 0..MaxToolCalls}

\* what tool.ainvoke does: it returns an output or raises
ToolOutcomes ==
    {Returns("output"), Raises(ApplicationError("ServiceError", <<"tool failed">>))}

\* the for loop of the tools node over tool_calls; outs[k] is what the tool of
\* the k-th call does if it is run
RECURSIVE ToolResponses(_, _)
ToolResponses(tool_calls, outs) ==
    IF tool_calls = <<>>
    THEN <<>>
    ELSE LET tool_call == Head(tool_calls)
             out == Head(outs)
             tool_output ==
                 IF out.ok THEN out.value
                 ELSE <<"Error executing tool", tool_call.name, Str(out.exc)>>
             rest == ToolResponses(Tail(tool_calls), Tail(outs))
         IN  IF tool_call.name \in ToolMap
             THEN <<ToolMessage(tool_call.id, tool_output, tool_call.name)>> \o rest
             ELSE rest

should_continue(msgs) ==
    IF Last(msgs).tool_calls # <<>> THEN "tools" ELSE "__end__"

GraphInit ==
    /\ node = "agent"
    /\ messages = <<HumanMessage>>
    /\ PipelineOff /\ LimiterOff /\ RouteOff

\* the agent node, and the conditional edge after it
GraphAgent(response) ==
    /\ node = "agent"
    /\ AiCount(messages) < MaxTurns
    /\ messages' = Append(messages, response)
    /\ node' = should_continue(messages')
    /\ UNCHANGED <<pipelineAll, limiterVars, routeVars>>

\* the tools node, and the edge from it to the agent node
GraphTools(outs) ==
    /\ node = "tools"
    /\ messages' = messages \o ToolResponses(Last(messages).tool_calls, outs)
    /\ node' = "agent"
    /\ UNCHANGED <<pipelineAll, limiterVars, routeVars>>

GraphNext ==
    \/ \E response \in ModelReplies(AiCount(messages) + 1) : GraphAgent(response)
    \/ \E outs \in [1..MaxToolCalls -> ToolOutcomes] : GraphTools(outs)

GraphSpec == GraphInit /\ [][GraphNext]_vars

(***************************************************************************)
(* The rate limiter (core/dependencies.py) and the middleware that asks it *)
(* about every request (shared/middleware.py).  Time is time.time(), read  *)
(* once by is_allowed; it passes between requests and never runs back.     *)
(***************************************************************************)
Clients == {"10.0.0.1", "10.0.0.2"}

HealthPaths == {"/", "/health", "/api/v1/chat/health"}
Paths == HealthPaths \cup {"/api/v1/chat/analyze"}

\* if request.url.path in [...]: return await call_next(request)
SkipPaths == {"/health", "/", "/api/docs", "/api/redoc", "/api/openapi.json"}

\* key=f"ip:{client_ip}"
Key(client_ip) == <<"ip:", client_ip>>

\* the limit counts one request more
Exceeded_OffByOne(count, limit) == count > limit

\* if len(self._requests[key]) >= limit: return False
Exceeded(count, limit) == count >= limit

\* [req_time for req_time in self._requests[key] if current_time - req_time < window]
Prune(times, current_time, window) ==
    SelectSeq(times, LAMBDA req_time : current_time - req_time < window)

\* RateLimiter.is_allowed: its answer and self._requests after it
is_allowed(reqs, key, limit, window, current_time) ==
    LET before == IF key \in DOMAIN reqs THEN reqs[key] ELSE <<>>
        kept == Prune(before, current_time, window)
        full == Exceeded(Len(kept), limit)
        after == IF full THEN kept ELSE Append(kept, current_time)
    IN  [allowed |-> ~full,
         requests |-> [k \in DOMAIN reqs \cup {key} |->
                          IF k = key THEN after ELSE reqs[k]]]

\* what the application behind the middleware answers on a path: the health
\* endpoints return their dict, /analyze answers 200 or rejects the request
Endpoint(path) == IF path \in HealthPaths THEN {200} ELSE {200, 400}

LimiterInit ==
    /\ clock = 0
    /\ requests = [key \in {} |-> <<>>]
    /\ settings \in [RATE_LIMIT_REQUESTS : 1..MaxLimit, RATE_LIMIT_WINDOW : 1..MaxWindow,
                      ENABLE_RATE_LIMITING : BOOLEAN]
    /\ calls = <<>>
    /\ served = <<>>
    /\ PipelineOff /\ GraphOff /\ RouteOff

\* time passes
Tick ==
    /\ clock < MaxClock
    /\ clock' = clock + 1
    /\ UNCHANGED <<requests, settings, calls, served, pipelineAll, graphVars, routeVars>>

\* rate_limiting_middleware on a request of client_ip for path; status_code is
\* what the application answers if the request is passed on
HttpRequest(client_ip, path, status_code) ==
    /\ settings.ENABLE_RATE_LIMITING /\ path \notin SkipPaths => Len(calls) < MaxCalls
    /\ IF ~settings.ENABLE_RATE_LIMITING \/ path \in SkipPaths
       THEN /\ served' = <<[client |-> client_ip, path |-> path, status_code |-> status_code]>>
            /\ UNCHANGED <<requests, calls>>
       ELSE LET answer == is_allowed(requests, Key(client_ip), settings.RATE_LIMIT_REQUESTS,
                                     settings.RATE_LIMIT_WINDOW, clock)
            IN  /\ requests' = answer.requests
                /\ calls' = Append(calls, [key |-> Key(client_ip), at |-> clock,
                                           allowed |-> answer.allowed])
                /\ served' = <<[client |-> client_ip, path |-> path,
                                status_code |-> IF answer.allowed THEN status_code ELSE 429]>>
    /\ UNCHANGED <<clock, settings, pipelineAll, graphVars, routeVars>>

LimiterNext ==
    \/ Tick
    \/ \E client_ip \in Clients : \E path \in Paths : \E status_code \in Endpoint(path) :
           HttpRequest(client_ip, path, status_code)

LimiterSpec == LimiterInit /\ [][LimiterNext]_vars

(***************************************************************************)
(* The /analyze route (features/chat/routes.py): it checks and sanitizes   *)
(* the messages of the request, awaits ChatOrchestrator.analyze_message on *)
(* what is left, adds log_analysis_result to the background tasks and      *)
(* answers; the background tasks run once the response has been sent.      *)
(***************************************************************************)
\* the bodies the schema lets through: content is a str
Conversations ==
    UNION {[1..n -> {Msg(""), Msg(" "), Msg("hello")}] : n \in 0..MaxMessages}

\* sanitize_text that leaves the text as it came
sanitize_text_AsGiven(text) == text

\* sanitize_text on the short texts of Conversations
sanitize_text(text) == IF Falsy(text) THEN "" ELSE Strip(text)

\* the loop of the route over conversation.messages
RECURSIVE sanitized_messages(_)
sanitized_messages(msgs) ==
    IF msgs = <<>>
    THEN <<>>
    ELSE LET msg == Head(msgs)
             sanitized_content == sanitize_text(msg.content)
             rest == sanitized_messages(Tail(msgs))
         IN  IF ~Falsy(sanitized_content)
             THEN <<[sender |-> msg.sender, content |-> sanitized_content]>> \o rest
             ELSE rest

truncate_conversation_history(msgs) ==
    IF Len(msgs) <= MaxHistoryLength
    THEN msgs
    ELSE SubSeq(msgs, Len(msgs) - MaxHistoryLength + 1, Len(msgs))

\* raise HTTPException(status_code=..., detail=...), by the except clause that
\* catches e
HTTPException(e) ==
    IF Matches(e, {"ValidationError"})
    THEN [status_code |-> 400, content |-> Str(e)]
    ELSE IF Matches(e, {"ServiceError"})
    THEN [status_code |-> 503, content |-> "Analysis service temporarily unavailable"]
    ELSE [status_code |-> 500, content |-> "Internal server error"]

\* the two checks ahead of the analysis
RouteError(msgs) ==
    IF Len(msgs) = 0
    THEN ApplicationError("ValidationError", "Messages list cannot be empty")
    ELSE IF Len(sanitized_messages(msgs)) = 0
    THEN ApplicationError("ValidationError", "No valid messages found after sanitization")
    ELSE NoException

\* log_analysis_result whose except clause raises the error again
log_analysis_result_Reraises(analysis, fails) ==
    IF fails
    THEN [raised |-> TRUE, line |-> "Failed to log analysis result"]
    ELSE [raised |-> FALSE,
          line |-> <<"Analysis result logged", DictGet(analysis, "action", None)>>]

\* log_analysis_result: it reads the analysis and writes a log line; fails says
\* whether the logging call raises
log_analysis_result(analysis, fails) ==
    IF fails
    THEN [raised |-> FALSE, line |-> "Failed to log analysis result"]
    ELSE [raised |-> FALSE,
          line |-> <<"Analysis result logged", DictGet(analysis, "action", None)>>]

RouteInit ==
    /\ conversation \in Conversations
    /\ route = "received"
    /\ http_response = NoResponse
    /\ background_tasks = <<>>
    /\ log_records = <<>>
    /\ conversation_history = <<>>
    /\ pc = "off"
    /\ deco = AgentDecorator
    /\ inference = "flaky"
    /\ InitCommon
    /\ GraphOff /\ LimiterOff

retrierVars == <<retrier, outcome, invocations, api_calls, slept, call_args, result,
                 error, failures, accepted, deco, inference, op_script, sync>>

\* lines 60-77 and 124-126: the request has no message with text
RouteRejects ==
    /\ route = "received"
    /\ RouteError(conversation) # NoException
    /\ http_response' = HTTPException(RouteError(conversation))
    /\ route' = "responded"
    /\ UNCHANGED <<conversation, background_tasks, log_records, conversation_history, pc,
                   retrierVars, graphVars, limiterVars>>

\* lines 60-101: the route awaits orchestrator.analyze_message
RouteCallsOrchestrator ==
    /\ route = "received"
    /\ RouteError(conversation) = NoException
    /\ conversation_history' = truncate_conversation_history(sanitized_messages(conversation))
    /\ pc' = "start"
    /\ route' = "analysing"
    /\ UNCHANGED <<conversation, http_response, background_tasks, log_records,
                   retrierVars, graphVars, limiterVars>>

\* lines 103-130: analyze_message has returned or raised
RouteResumes ==
    /\ route = "analysing"
    /\ pc \in {"returned", "raised"}
    /\ IF pc = "returned"
       THEN /\ background_tasks' = Append(background_tasks,
                    [func |-> "log_analysis_result", analysis |-> result])
            /\ http_response' =
                   [status_code |-> 200,
                    content |-> [success |-> TRUE, data |-> result,
                                 processed_messages |-> Len(conversation_history)]]
       ELSE /\ http_response' = HTTPException(error)
            /\ UNCHANGED background_tasks
    /\ route' = "responded"
    /\ UNCHANGED <<conversation, log_records, conversation_history, pc,
                   retrierVars, graphVars, limiterVars>>

\* the response has been sent: the background task runs
BackgroundTaskRuns(fails) ==
    /\ route = "responded"
    /\ background_tasks # <<>>
    /\ log_records' = Append(log_records,
                              log_analysis_result(Head(background_tasks).analysis, fails))
    /\ background_tasks' = Tail(background_tasks)
    /\ UNCHANGED <<conversation, route, http_response, conversation_history, pc,
                   retrierVars, graphVars, limiterVars>>

RouteNext ==
    \/ RouteRejects
    \/ RouteCallsOrchestrator
    \/ AnalysisStep
    \/ RouteResumes
    \/ \E fails \in BOOLEAN : BackgroundTaskRuns(fails)

RouteSpec == RouteInit /\ [][RouteNext]_vars

(***************************************************************************)
(* One call of analyze_message on an event loop that does not stop while a *)
(* coroutine can run: as long as a call is pending it is answered or       *)
(* fails, a sleep ends, a coroutine that is ready resumes.  A cancellation  *)
(* may come or not.                                                        *)
(***************************************************************************)
Fairness == WF_vars(AgentStep)

\* the histories of at most one message: the text plays no part in the steps
LiveInit == InitAnalyze /\ Len(conversation_history) <= 1

LiveSpec == LiveInit /\ [][PipelineStep]_vars /\ Fairness

(***************************************************************************)
(* Properties                                                              *)
(***************************************************************************)
AnalyzeRun == pc # "off"
Returned == pc = "returned"
IsFallback(r) == "error" \in DOMAIN r.full_analysis
Raised(i) == retrier[i].state = "raised"
HasReturned(i) == retrier[i].state = "returned"

\* C1: past the precondition, once a wrapper call of an agent has raised
\* (retries exhausted), analyze_message raises nothing, starts no further
\* agent, and what it returns is exactly the safe default: FLAG, High/100,
\* Neutral/50, no response, has_event false, and an error in full_analysis.
\* (A call that was cancelled is not a call that met an error.)
C1_FallbackOnError ==
    (AnalyzeRun /\ pc # "cancelled" /\ \E t \in Tasks : Raised(t)) =>
        /\ error = NoException
        /\ pc \in {"gather", "returned"}
        /\ Returned =>
              /\ result.action = "FLAG"
              /\ result.risk_update = "High"
              /\ result.risk_score = JInt(100)
              /\ result.sentiment = "Neutral"
              /\ result.sentiment_score = JInt(50)
              /\ result.response_to_send = None
              /\ result.event_detection = [has_event |-> "false"]
              /\ DOMAIN result.full_analysis = {"error"}
              /\ result.full_analysis.error # <<>>

\* the sentiment agent ran out of retries while triage had returned, and
\* analyze_message has returned
C1_Witness ==
    /\ Returned
    /\ Raised("sentiment")
    /\ HasReturned("triage")

\* C2: when triage returned IGNORE, or triage returned FLAG and risk returned
\* High, the response generator made no inference call and the result's
\* response_to_send is None.
C2_ResponseSkipped ==
    (/\ HasReturned("triage")
     /\ \/ outcome["triage"].value = "IGNORE"
        \/ /\ outcome["triage"].value = "FLAG"
           /\ HasReturned("risk")
           /\ outcome["risk"].value.risk_update = "High") =>
        /\ api_calls["response"] = 0
        /\ retrier["response"].state \in {"idle", "returned"}
        /\ Returned => result.response_to_send = None

\* a nominal result for a FLAG message of High risk: generate was called and
\* returned None without an inference call
C2_Witness ==
    /\ Returned
    /\ ~IsFallback(result)
    /\ result.action = "FLAG"
    /\ result.risk_update = "High"
    /\ invocations["response"] = 1
    /\ api_calls["response"] = 0

\* the last entry of the history has no text: no content, None or ""
LastContentEmpty ==
    /\ conversation_history # <<>>
    /\ LET last == conversation_history[Len(conversation_history)]
       IN  \/ "content" \notin DOMAIN last
           \/ last.content \in {"", None}

\* C3: for an empty history, or one whose last entry has empty content,
\* analyze_message raises ValidationError, returns nothing, and no agent is
\* called: the number of inference calls stays zero.
C3_FailFast ==
    (AnalyzeRun /\ (conversation_history = <<>> \/ LastContentEmpty)) =>
        /\ \A t \in Tasks : api_calls[t] = 0 /\ invocations[t] = 0
        /\ pc \in {"start", "raised"}
        /\ result = NoResult
        /\ pc = "raised" => error.cls = "ValidationError"

\* a history of two messages whose last one is empty has been rejected
C3_Witness ==
    /\ pc = "raised"
    /\ Len(conversation_history) = 2
    /\ LastContentEmpty

\* C4: the risk agent is called only once triage has returned, and with the
\* action triage returned; if triage raises for good, the risk agent is never
\* called and analyze_message can only return the safe default.
C4_RiskAfterTriage ==
    /\ retrier["risk"].state # "idle" =>
          /\ HasReturned("triage")
          /\ call_args["risk"] = <<CurrentMessage(conversation_history),
                                   outcome["triage"].value>>
          /\ call_args["risk"][2] = accepted["triage"].primary_action
    /\ Raised("triage") =>
          /\ retrier["risk"].state = "idle"
          /\ invocations["risk"] = 0
          /\ api_calls["risk"] = 0
          /\ pc \in {"gather", "returned", "cancelled"}
          /\ Returned => IsFallback(result)

\* the risk agent is in its inference call, called with IGNORE after triage
\* needed a second attempt to return it
C4_Witness ==
    /\ retrier["risk"].state = "calling"
    /\ call_args["risk"][2] = "IGNORE"
    /\ invocations["triage"] = 2

\* C5: triage, sentiment and event detection are started in the same step,
\* and neither the risk agent nor the response generator is called, nor a
\* nominal result assembled, unless all three have returned.
C5_Join ==
    /\ \A f, g \in FanOut : (invocations[f] = 0) = (invocations[g] = 0)
    /\ pc \in {"gather", "risk", "response", "returned"} =>
          \A f \in FanOut : invocations[f] >= 1
    /\ \A t \in {"risk", "response"} :
          invocations[t] > 0 => \A f \in FanOut : HasReturned(f)
    /\ (Returned /\ ~IsFallback(result)) => \A f \in FanOut : HasReturned(f)

\* the risk agent has been called after the join waited for the third attempt
\* of sentiment, triage having returned at its first
C5_Witness ==
    /\ retrier["risk"].state = "calling"
    /\ invocations["triage"] = 1
    /\ invocations["sentiment"] = 3

Retrying(i) == retrier[i].state \in {"calling", "sleeping"}

\* C6: a call of the wrapper runs the wrapped function at most max_retries+1
\* times, and each run after the first follows a run that raised an error of
\* the exceptions given; an agent, wrapped with max_retries=3, issues at most
\* 4 inference calls, and exactly 1 when its first call succeeds.
C6_AttemptsBounded ==
    \A i \in Ids :
        /\ invocations[i] <= deco.max_retries + 1
        /\ invocations[i] <= failures[i] + 1
        /\ Retrying(i) => invocations[i] = retrier[i].attempt + 1
        /\ (Retrying(i) /\ invocations[i] > 1) =>
              Matches(retrier[i].last_exception, deco.exceptions)
        /\ i \in Tasks =>
              /\ api_calls[i] <= 4
              /\ api_calls[i] <= invocations[i]
              /\ (HasReturned(i) /\ failures[i] = 0 /\ accepted[i] # <<>>) =>
                    api_calls[i] = 1

\* triage returned at its fourth inference call
C6_Witness ==
    /\ HasReturned("triage")
    /\ api_calls["triage"] = 4
    /\ failures["triage"] = 3

\* C7: the delays a wrapper call has slept are backoff_factor * 2^i after
\* failed attempt i = 0, 1, ...: none before the first attempt, one after each
\* failed attempt but the last one (a call cancelled in its sleep has begun
\* the sleep that follows its latest attempt); for an agent they are 1, 2, 4.
C7_BackoffDelays ==
    \A i \in Ids :
        /\ \A k \in 1..Len(slept[i]) :
              slept[i][k] = deco.backoff_factor * (2 ^ (k - 1))
        /\ Len(slept[i]) <= deco.max_retries
        /\ Len(slept[i]) \in
              IF retrier[i].state = "sleeping" THEN {invocations[i]}
              ELSE IF invocations[i] = 0 THEN {0}
              ELSE IF retrier[i].state = "cancelled"
              THEN {invocations[i] - 1, invocations[i]}
              ELSE {invocations[i] - 1}
        /\ i \in Tasks => slept[i] \in {<<>>, <<1>>, <<1, 2>>, <<1, 2, 4>>}

\* event detection has used up its four attempts, having slept 1, 2 and 4
C7_Witness ==
    /\ Raised("event")
    /\ failures["event"] = 4
    /\ slept["event"] = <<1, 2, 4>>

\* C8: a wrapper call whose max_retries+1 runs have all raised an error of the
\* exceptions given raises one ServiceError, MAX_RETRIES_EXCEEDED, holding the
\* error of the last run; while it is retrying it has raised nothing.
C8_ExhaustionWrapsLast ==
    \A i \in Ids :
        /\ (retrier[i].state \in {"idle", "calling", "sleeping"}) =>
              outcome[i] = Unresolved
        /\ (Raised(i) /\ failures[i] = deco.max_retries + 1
              /\ (i = "op" /\ deco.exceptions = {"ServiceError"} =>
                     outcome[i].exc.cls # "KeyError")) =>
              /\ ~outcome[i].ok
              /\ outcome[i].exc.cls = "ServiceError"
              /\ outcome[i].exc.error_code = "MAX_RETRIES_EXCEEDED"
              /\ outcome[i].exc.message = <<FuncName(i), "failed after attempts", deco.max_retries + 1>>
              /\ Len(outcome[i].exc.last_exception) = 2
              /\ i = "op" => outcome[i].exc.last_exception[2] = deco.max_retries + 1
        /\ (Raised(i) /\ i \in Tasks) => failures[i] = 4

\* the decorated function raised at each of its three runs under max_retries=2
C8_Witness ==
    /\ Raised("op")
    /\ deco.max_retries = 2
    /\ failures["op"] = 3
    /\ outcome["op"].exc.cls = "ServiceError"

RiskBand(level) ==
    CASE level = "High" -> 70..100
      [] level = "Medium" -> 40..69
      [] level = "Low" -> 0..39

SentimentBand(sentiment) ==
    CASE sentiment = "Positive" -> 0..30
      [] sentiment = "Neutral" -> 31..60
      [] sentiment = "Negative" -> 61..100

\* C9: in every result analyze_message returns, the risk score lies in the
\* band of the risk level (High 70..100, Medium 40..69, Low 0..39) and the
\* sentiment score in the band of the sentiment (Positive 0..30, Neutral
\* 31..60, Negative 61..100).
C9_ScoresInBand ==
    Returned =>
        /\ result.risk_score.n \in RiskBand(result.risk_update)
        /\ result.sentiment_score.n \in SentimentBand(result.sentiment)

Actions == {"FLAG", "IGNORE", "RESPOND"}
RiskLevels == {"Low", "Medium", "High"}
Sentiments == {"Positive", "Neutral", "Negative"}
IsScore(v) == v.type = "int" /\ v.n \in 0..100

\* C10: every result analyze_message returns has its action, risk level and
\* sentiment in their three-valued domains and both scores integers in 0..100;
\* what an agent returns is in its domain and is, field by field, the reply of
\* the model it was made from, so a reply outside the domains is never
\* returned, as it is or repaired.
C10_DomainsEnforced ==
    /\ Returned =>
          /\ result.action \in Actions
          /\ result.risk_update \in RiskLevels
          /\ result.sentiment \in Sentiments
          /\ IsScore(result.risk_score)
          /\ IsScore(result.sentiment_score)
    /\ HasReturned("triage") =>
          /\ outcome["triage"].value \in Actions
          /\ outcome["triage"].value = accepted["triage"].primary_action
    /\ HasReturned("risk") =>
          /\ outcome["risk"].value.risk_update \in RiskLevels
          /\ IsScore(outcome["risk"].value.risk_score)
          /\ outcome["risk"].value.risk_update = accepted["risk"].risk_update
          /\ outcome["risk"].value.risk_score = accepted["risk"].risk_score
    /\ HasReturned("sentiment") =>
          /\ outcome["sentiment"].value.sentiment \in Sentiments
          /\ IsScore(outcome["sentiment"].value.sentiment_score)
          /\ outcome["sentiment"].value.sentiment = accepted["sentiment"].sentiment
          /\ outcome["sentiment"].value.sentiment_score =
                accepted["sentiment"].sentiment_score

\* a nominal result with the scores at the ends of the range, returned after
\* the risk agent had an attempt fail
C10_Witness ==
    /\ Returned
    /\ ~IsFallback(result)
    /\ result.risk_score = JInt(100)
    /\ result.sentiment_score = JInt(0)
    /\ failures["risk"] > 0

\* the error an agent raises for a reply it could not parse ("") or that
\* failed its checks ("ValidationError")
IsSchemaError(e) ==
    /\ e.cls = "OpenAIError"
    /\ e.message[2] \in {"", "ValidationError"}

\* C11: a reply of the model that fails parsing or validation is not retried:
\* no wrapper call of an agent sleeps, or runs the agent again, after an error
\* raised for such a reply; the agent has then made one inference call for it
\* and the wrapper has raised.
C11_ValidationNotRetried ==
    \A t \in Tasks :
        IsSchemaError(retrier[t].last_exception) => ~Retrying(t)

\* C12: an agent whose inference call fails k <= 3 times and then succeeds
\* does not give up: its wrapper returns the value of call k+1, having issued
\* exactly k+1 calls and slept 1, 2, ... (k delays, doubling) between them;
\* and when no agent gave up, what analyze_message returns is the assembled
\* result, not the safe default.
C12_TransientThenSuccess ==
    /\ \A t \in Tasks :
          /\ failures[t] <= TaskMaxRetries => ~Raised(t)
          /\ (HasReturned(t) /\ accepted[t] # <<>>) =>
                /\ api_calls[t] = failures[t] + 1
                /\ Len(slept[t]) = failures[t]
                /\ \A k \in 1..Len(slept[t]) : slept[t][k] = 2 ^ (k - 1)
    /\ (Returned /\ \A t \in Tasks : ~Raised(t)) =>
          /\ ~IsFallback(result)
          /\ result.sentiment = accepted["sentiment"].sentiment
          /\ result.action = accepted["triage"].primary_action

\* sentiment failed twice and returned at its third call, after sleeping 1 and
\* 2, the other agents succeeded at once, and the result is the assembled one
C12_Witness ==
    /\ Returned
    /\ ~IsFallback(result)
    /\ failures["sentiment"] = 2
    /\ api_calls["sentiment"] = 3
    /\ slept["sentiment"] = <<1, 2>>
    /\ \A t \in Tasks \ {"sentiment"} : failures[t] = 0

\* the dict of the except clause, whatever the error it reports
IsSafeDefault(r) ==
    /\ DOMAIN r = {"action", "risk_update", "risk_score", "sentiment",
                   "sentiment_score", "response_to_send", "event_detection",
                   "full_analysis"}
    /\ r.action = "FLAG"
    /\ r.risk_update = "High"
    /\ r.risk_score = JInt(100)
    /\ r.sentiment = "Neutral"
    /\ r.sentiment_score = JInt(50)
    /\ r.response_to_send = None
    /\ r.event_detection = [has_event |-> "false"]
    /\ DOMAIN r.full_analysis = {"error"}

\* C13: when all four attempts of one agent have failed, analyze_message (if
\* not cancelled) goes no further than its except clause: what it returns is
\* the safe default, reporting the ServiceError of that agent's wrapper, and,
\* when the agent is one of the four ahead of the response generator, the
\* response generator is never called.
C13_PermanentFailure ==
    \A t \in Tasks :
        (Raised(t) /\ pc # "cancelled") =>
            /\ failures[t] = TaskMaxRetries + 1
            /\ api_calls[t] = TaskMaxRetries + 1
            /\ pc \in {"gather", "returned"}
            /\ Returned =>
                  /\ IsSafeDefault(result)
                  /\ result.full_analysis.error =
                        <<FuncName(t), "failed after attempts", TaskMaxRetries + 1>>
            /\ t # "response" =>
                  /\ retrier["response"].state = "idle"
                  /\ invocations["response"] = 0
                  /\ api_calls["response"] = 0

\* the risk agent failed four times after the three others had returned, and
\* analyze_message has returned
C13_Witness ==
    /\ Returned
    /\ Raised("risk")
    /\ failures["risk"] = 4
    /\ \A t \in FanOut : HasReturned(t)

\* asyncio.gather is pending: no agent has raised and not all have returned
GatherPending == pc = "gather" /\ ~GatherFailed(States) /\ ~GatherReady(States)

\* no agent is inside an inference call or a backoff sleep
AllStopped == \A i \in Tasks : ~Retrying(i)

\* C14: analyze_message leaves a pending asyncio.gather only by being
\* cancelled, and the step that cancels it stops every agent that was in an
\* inference call or in a backoff sleep, issues no call, returns no result
\* and raises CancelledError to the caller; in the cancelled call, cancelled
\* before an agent had raised, no agent runs any more, and when it was
\* cancelled in the gather the risk agent and the response generator have
\* never been called.
C14_Cancellation ==
    /\ [][(GatherPending /\ pc' # "gather") =>
              /\ pc' = "cancelled"
              /\ error' = CancelledError
              /\ result' = NoResult
              /\ \A t \in FanOut : retrier'[t].state \in {"returned", "cancelled"}
              /\ \A t \in FanOut : retrier'[t].state = "cancelled" => ~outcome'[t].ok
              /\ api_calls' = api_calls
              /\ invocations' = invocations]_vars
    /\ [](pc = "cancelled" =>
              /\ error = CancelledError
              /\ result = NoResult
              /\ ~GatherFailed(States) => AllStopped
              /\ retrier["risk"].state = "idle" =>
                    /\ retrier["response"].state = "idle"
                    /\ \A t \in {"risk", "response"} :
                          invocations[t] = 0 /\ api_calls[t] = 0)

\* analyze_message was cancelled with all three agents in flight: triage in
\* the sleep after its first attempt, sentiment in its second inference call,
\* event detection in its first
C14_Witness ==
    /\ pc = "cancelled"
    /\ \A t \in FanOut : retrier[t].state = "cancelled"
    /\ invocations["triage"] = 1 /\ slept["triage"] = <<1>>
    /\ invocations["sentiment"] = 2 /\ slept["sentiment"] = <<1>>
    /\ invocations["event"] = 1 /\ slept["event"] = <<>>

\* C15: a call whose history is empty or whose last entry has no text ends in
\* ValidationError at the caller, and never in a result, the safe default
\* included; any other call never raises an error to its caller (it can only
\* be cancelled): once an agent has given up, whatever the error was, a
\* validation error on a reply of the model included, the call returns the
\* safe default.
C15_PropagationPolicy ==
    AnalyzeRun =>
        /\ (pc = "raised") = (error.cls = "ValidationError")
        /\ error.cls \in {"None", "ValidationError", "CancelledError"}
        /\ (conversation_history = <<>> \/ LastContentEmpty) =>
              /\ pc \in {"start", "raised"}
              /\ result = NoResult
        /\ ~(conversation_history = <<>> \/ LastContentEmpty) =>
              /\ pc # "raised"
              /\ pc # "cancelled" => error = NoException
              /\ (Returned /\ \E t \in Tasks : Raised(t)) => IsSafeDefault(result)
              /\ Returned = (result # NoResult)

\* triage gave up after a reply that failed validation, and analyze_message
\* has returned the safe default
C15_Witness ==
    /\ Returned
    /\ IsSafeDefault(result)
    /\ Raised("triage")
    /\ outcome["triage"].exc.last_exception = <<"Triage analysis failed", "ValidationError">>

\* C16: when the text of the last message is empty after trimming,
\* analyze_message raises ValidationError and no inference call is made.
C16_TrimmedEmptyRejected ==
    (/\ AnalyzeRun
     /\ conversation_history # <<>>
     /\ Strip(CurrentMessage(conversation_history)) = "") =>
        /\ pc \in {"start", "raised"}
        /\ \A t \in Tasks : api_calls[t] = 0

\* C17: in the event detection of every result analyze_message returns,
\* has_event false comes with event_details, suggested_reminder and
\* internal_note each absent or None.
C17_NoEventNoDetails ==
    Returned =>
        LET event_detection == result.event_detection
        IN  DictGet(event_detection, "has_event", "false") = "false" =>
                \A k \in {"event_details", "suggested_reminder", "internal_note"} :
                    DictGet(event_detection, k, None) = None

\* triage returned RESPOND, or FLAG with the risk agent returning Low or Medium
GateOpen ==
    /\ HasReturned("triage")
    /\ HasReturned("risk")
    /\ \/ outcome["triage"].value = "RESPOND"
       \/ /\ outcome["triage"].value = "FLAG"
          /\ outcome["risk"].value.risk_update \in {"Low", "Medium"}

\* C18: when triage returned RESPOND, or FLAG with a risk of Low or Medium,
\* generate has been called with the history, the action and the risk level
\* and has issued an inference call; once it has returned, the result is the
\* assembled one and its response_to_send is the text generated (stripped of
\* blanks and quotes), never None.
C18_ResponsePopulated ==
    (AnalyzeRun /\ GateOpen) =>
        /\ invocations["response"] >= 1
        /\ api_calls["response"] >= 1
        /\ call_args["response"] = <<conversation_history, outcome["triage"].value,
                                     outcome["risk"].value.risk_update>>
        /\ HasReturned("response") =>
              /\ Returned
              /\ ~IsFallback(result)
              /\ result.response_to_send # None
              /\ result.response_to_send = accepted["response"][3]
              /\ result.response_to_send = outcome["response"].value
        /\ (Returned /\ ~IsFallback(result)) => HasReturned("response")

\* a FLAG message of Medium risk got the reply the model had put in quotes,
\* generated at the second call of the response generator
C18_Witness ==
    /\ Returned
    /\ ~IsFallback(result)
    /\ result.action = "FLAG"
    /\ result.risk_update = "Medium"
    /\ result.response_to_send = "On it."
    /\ accepted["response"][2] = "\""
    /\ api_calls["response"] = 2

\* C19: what analyze_message returns is a function of what the agents
\* returned or raised, not of the order in which they did: it is the safe
\* default exactly when an agent gave up, the same dict whichever of the
\* agents that gave up is the one asyncio.gather reports; otherwise it is
\* assembled with each field taken from the agent it belongs to.
C19_OrderIndependent ==
    /\ \A t, u \in FanOut :
          (Raised(t) /\ Raised(u)) => Fallback(outcome[t].exc) = Fallback(outcome[u].exc)
    /\ Returned =>
          /\ IsFallback(result) = (\E t \in Tasks : Raised(t))
          /\ IsFallback(result) =>
                \A t \in Tasks : Raised(t) => result = Fallback(outcome[t].exc)
          /\ ~IsFallback(result) =>
                /\ \A t \in FanOut : HasReturned(t)
                /\ result.action = outcome["triage"].value
                /\ result.sentiment = outcome["sentiment"].value.sentiment
                /\ result.sentiment_score = outcome["sentiment"].value.sentiment_score
                /\ result.event_detection = outcome["event"].value
                /\ result.full_analysis.event_detection = outcome["event"].value

\* triage and sentiment have both given up, event detection is still in its
\* first call, and analyze_message has returned
C19_Witness ==
    /\ Returned
    /\ Raised("triage")
    /\ Raised("sentiment")
    /\ retrier["event"].state = "calling"
    /\ invocations["event"] = 1

\* C20: the attempt counter of a wrapper call is the number of failed runs of
\* its own function (less one while it sleeps after a failed run), zero at
\* the first run, whatever the other agents have done; and whatever state the others are in (failed, sleeping, given up),
\* an agent in an inference call can have that call answered and an agent in
\* a backoff sleep can wake up and call again.
C20_IndependentRetries ==
    \A t \in Tasks :
        /\ retrier[t].state = "calling" =>
              /\ retrier[t].attempt = failures[t]
              /\ invocations[t] = failures[t] + 1
        /\ retrier[t].state = "sleeping" =>
              /\ retrier[t].attempt = failures[t] - 1
              /\ invocations[t] = failures[t]
        /\ Retrying(t) => Len(slept[t]) = failures[t]
        /\ (Retrying(t) /\ failures[t] = 0) => retrier[t].last_exception = NoException
        /\ (t \in FanOut /\ retrier[t].state = "calling") =>
              ENABLED FanOutCallCompletes(t, GoodReply(t))
        /\ retrier[t].state = "sleeping" => ENABLED BackoffElapsed(t)

\* triage sleeps after its second failed attempt and event detection has given
\* up, while sentiment is in its first call
C20_Witness ==
    /\ retrier["triage"].state = "sleeping"
    /\ failures["triage"] = 2
    /\ Raised("event")
    /\ retrier["sentiment"].state = "calling"
    /\ retrier["sentiment"].attempt = 0

\* a KeyError under exceptions=(ServiceError,): an error the wrapper around
\* "op" is not to retry
NonMatching(e) == e.cls = "KeyError" /\ deco.exceptions = {"ServiceError"}

\* C25: the wrapper around "op" never sleeps or runs "op" again after an error
\* outside its exception set; the run that raises one ends the call at once,
\* and what the caller gets is that very error (class, message, no error
\* code), not a ServiceError, with no sleep after it: the sleeps and runs
\* before it all followed errors of the set.
C25_NonMatchingPropagates ==
    /\ Retrying("op") => ~NonMatching(retrier["op"].last_exception)
    /\ \A k \in 1..(MaxN + 1) :
          LET e == [cls |-> "KeyError", error_code |-> "", message |-> <<"missing", k>>,
                    last_exception |-> <<>>]
          IN  (outcome["op"] = Raises(e) /\ NonMatching(e)) =>
                 /\ Raised("op")
                 /\ invocations["op"] = k
                 /\ failures["op"] = k
                 /\ Len(slept["op"]) = k - 1
    /\ (Raised("op") /\ deco.exceptions = {"ServiceError"}
          /\ failures["op"] <= deco.max_retries) =>
             /\ outcome["op"].exc.cls = "KeyError"
             /\ outcome["op"].exc.message = <<"missing", invocations["op"]>>

\* under exceptions=(ServiceError,) and max_retries=3, "op" raised an
\* OpenAIError, was run again after one sleep, raised a KeyError, and the
\* caller got the KeyError
C25_Witness ==
    /\ Raised("op")
    /\ deco.exceptions = {"ServiceError"}
    /\ deco.max_retries = 3
    /\ outcome["op"].exc.cls = "KeyError"
    /\ invocations["op"] = 2
    /\ Len(slept["op"]) = 1

\* C26: a result of analyze_message carries "error" in full_analysis exactly
\* when an agent gave up (the result is then the safe default); any other
\* result has its action from triage, its risk level and score from the risk
\* agent, its sentiment and score from the sentiment agent, its event payload
\* from event detection and its response from the response generator, each as
\* the agent returned it and as the model replied it, and a full_analysis of
\* the action, the risk level, the sentiment and the event payload.
C26_ResultFromAgents ==
    Returned =>
        /\ IsFallback(result) = (\E t \in Tasks : Raised(t))
        /\ IsFallback(result) => IsSafeDefault(result)
        /\ ~IsFallback(result) =>
              /\ \A t \in Tasks : HasReturned(t)
              /\ result.action = outcome["triage"].value
              /\ result.risk_update = outcome["risk"].value.risk_update
              /\ result.risk_score = outcome["risk"].value.risk_score
              /\ result.risk_score = accepted["risk"].risk_score
              /\ result.sentiment = outcome["sentiment"].value.sentiment
              /\ result.sentiment_score = outcome["sentiment"].value.sentiment_score
              /\ result.sentiment_score = accepted["sentiment"].sentiment_score
              /\ result.event_detection = outcome["event"].value
              /\ result.event_detection = accepted["event"]
              /\ result.response_to_send = outcome["response"].value
              /\ result.full_analysis =
                    [primary_action |-> result.action,
                     risk_update |-> result.risk_update,
                     sentiment |-> result.sentiment,
                     event_detection |-> result.event_detection]

\* an assembled result: IGNORE, Medium/50, Negative/100, an event with its
\* details, no response
C26_Witness ==
    /\ Returned
    /\ ~IsFallback(result)
    /\ result.action = "IGNORE"
    /\ result.risk_score = JInt(50)
    /\ result.sentiment_score = JInt(100)
    /\ result.event_detection.has_event = "true"
    /\ result.response_to_send = None

\* C27: once analyze_message has returned, no agent of the call is inside an
\* inference call or a backoff sleep.
C27_NoTaskAfterReturn ==
    Returned => AllStopped

\* inference calls issued for the call of analyze_message so far
TotalCalls ==
    api_calls["triage"] + api_calls["sentiment"] + api_calls["event"]
    + api_calls["risk"] + api_calls["response"]

\* C28: a call of analyze_message issues at most 20 inference calls, at most
\* four for each of the five agents; and, every inference call being answered
\* or failed and every sleep ending, a call that has passed the precondition
\* returns (unless it is cancelled), while one that has not raises.
C28_Termination ==
    /\ [](TotalCalls <= 20 /\ \A t \in Tasks : api_calls[t] <= TaskMaxRetries + 1)
    /\ (pc = "gather") ~> (pc \in {"returned", "cancelled"})
    /\ (pc = "start") ~> (pc \in {"gather", "raised"})

\* all twenty calls have been made: each agent returned at its fourth call but
\* the response generator, which then failed for the fourth time
C28_Witness ==
    /\ Returned
    /\ TotalCalls = 20
    /\ Raised("response")

(***************************************************************************)
(* C22.  For the same sequence of attempt outcomes the synchronous and the *)
(* asynchronous wrapper behave the same: as many attempts, the same delays *)
(* in the same order, and the same final outcome, a return value or a      *)
(* ServiceError.  The two calls of "op" run the same function, whose k-th  *)
(* run does the same for both.  Whenever both have made as many attempts   *)
(* and stand at the same point they have slept the same delays and hold    *)
(* the same locals, and a call that is over is matched by the other call   *)
(* being over after as many attempts, or still on its way to them.         *)
(***************************************************************************)
Over(state) == state \in {"returned", "raised"}

C22_WrappersAgree ==
    LET a == retrier["op"]
        s == sync.retrier
    IN  /\ (invocations["op"] = sync.invocations /\ a.state = s.state) =>
               /\ a = s
               /\ slept["op"] = sync.slept
               /\ outcome["op"] = sync.outcome
        /\ (Over(a.state) /\ Over(s.state)) =>
               /\ invocations["op"] = sync.invocations
               /\ a.state = s.state
        /\ (Over(a.state) /\ ~Over(s.state)) => sync.invocations <= invocations["op"]
        /\ (Over(s.state) /\ ~Over(a.state)) => invocations["op"] <= sync.invocations

\* both calls gave up with a ServiceError after sleeping twice
C22_Witness ==
    /\ retrier["op"].state = "raised" /\ sync.retrier.state = "raised"
    /\ sync.outcome.exc.cls = "ServiceError"
    /\ outcome["op"] = sync.outcome
    /\ Len(sync.slept) = 2 /\ sync.slept[2] > sync.slept[1]

(***************************************************************************)
(* C30.  The tools node answers every tool call of the last agent message  *)
(* with exactly one ToolMessage carrying the same tool_call_id, in the     *)
(* same order, and control then returns to the agent node: once the tools  *)
(* node has run on an agent message with n tool calls, the n messages      *)
(* after it are the ToolMessages of its calls, one each and in order, and  *)
(* the message after these, if any, is the next reply of the model.        *)
(***************************************************************************)
ToolsHasRunOn(j) == j < Len(messages) \/ node # "tools"

C30_EveryToolCallAnswered ==
    /\ node \in {"agent", "tools", "__end__"}
    /\ Last(messages).type = "tool" => node = "agent"
    /\ \A j \in 1..Len(messages) :
           (messages[j].type = "ai" /\ ToolsHasRunOn(j)) =>
               LET tool_calls == messages[j].tool_calls
                   n == Len(tool_calls)
               IN  /\ Len(messages) >= j + n
                   /\ \A k \in 1..n :
                          /\ messages[j + k].type = "tool"
                          /\ messages[j + k].tool_call_id = tool_calls[k].id
                   /\ Len(messages) > j + n => messages[j + n + 1].type = "ai"

(***************************************************************************)
(* C24.  The health endpoints /, /health and /api/v1/chat/health are       *)
(* always available: whatever requests the same client has made before,    *)
(* a request to one of them is answered with status 200, never with 429.   *)
(***************************************************************************)
C24_HealthAlwaysAvailable ==
    \A k \in 1..Len(served) :
        served[k].path \in HealthPaths => served[k].status_code = 200

(***************************************************************************)
(* C29.  For every key and every sequence of is_allowed calls at           *)
(* non-decreasing times: the calls answered True within any span of time   *)
(* shorter than window are at most limit; a call answered False is not     *)
(* recorded and consumes no quota (the times the limiter holds for a key   *)
(* are those of the calls for it answered True that were inside the window *)
(* at the last call for it); and the calls for one key never change the    *)
(* answer given for another (every answer is the one a limiter gives that  *)
(* has seen the calls for that key alone).                                 *)
(***************************************************************************)
CallsFor(key) == SelectSeq(calls, LAMBDA call : call.key = key)

\* the answers of a limiter that starts from reqs and is put the calls of seq
RECURSIVE Replay(_, _)
Replay(seq, reqs) ==
    IF seq = <<>>
    THEN <<>>
    ELSE LET answer == is_allowed(reqs, Head(seq).key, settings.RATE_LIMIT_REQUESTS,
                                  settings.RATE_LIMIT_WINDOW, Head(seq).at)
         IN  <<answer.allowed>> \o Replay(Tail(seq), answer.requests)

Answers(seq) == [n \in 1..Len(seq) |-> seq[n].allowed]

Granted(key, i, j) ==
    Cardinality({n \in i..j : calls[n].key = key /\ calls[n].allowed})

Recorded(key) ==
    LET own == CallsFor(key)
        last == own[Len(own)].at
        live == SelectSeq(own, LAMBDA call :
                    call.allowed /\ last - call.at < settings.RATE_LIMIT_WINDOW)
    IN  [n \in 1..Len(live) |-> live[n].at]

C29_LimiterBound ==
    /\ \A i, j \in 1..Len(calls) :
           (i <= j /\ calls[j].at - calls[i].at < settings.RATE_LIMIT_WINDOW) =>
               \A client_ip \in Clients :
                   Granted(Key(client_ip), i, j) <= settings.RATE_LIMIT_REQUESTS
    /\ \A n \in 1..Len(calls) - 1 : calls[n].at <= calls[n + 1].at
    /\ DOMAIN requests = {calls[n].key : n \in 1..Len(calls)}
    /\ \A key \in DOMAIN requests :
           /\ requests[key] = Recorded(key)
           /\ Answers(CallsFor(key)) = Replay(CallsFor(key), [k \in {} |-> <<>>])

\* a client is refused while the other is let in, and is let in again once its
\* window has passed
C29_Witness ==
    \E a, b, c \in 1..Len(calls) :
        /\ a < b /\ b < c
        /\ calls[a].key = calls[c].key /\ calls[b].key # calls[a].key
        /\ ~calls[a].allowed /\ calls[b].allowed /\ calls[c].allowed
        /\ calls[b].at = calls[a].at

(***************************************************************************)
(* C21.  Background reporting of an analysis is scheduled only after       *)
(* analyze_message has produced its result, and can never change what the  *)
(* caller receives: a task is in the background tasks, or has run, only    *)
(* when analyze_message has returned and the 200 response holding its      *)
(* result is made; the task holds that same result; log_analysis_result    *)
(* ends without an error leaving it, whether its logging call fails or     *)
(* not; and no step taken after the response is made changes the response  *)
(* or the analysis in it.                                                  *)
(***************************************************************************)
Scheduled == background_tasks # <<>> \/ log_records # <<>>

C21_BackgroundReporting ==
    /\ [](/\ Scheduled =>
              /\ pc = "returned"
              /\ route = "responded"
              /\ http_response.status_code = 200
              /\ http_response.content.data = result
          /\ \A k \in 1..Len(background_tasks) : background_tasks[k].analysis = result
          /\ \A k \in 1..Len(log_records) : ~log_records[k].raised
          /\ Len(background_tasks) + Len(log_records) <= 1)
    /\ [][route = "responded" => (http_response' = http_response /\ result' = result)]_vars

\* the logging call of the background task failed, after a 200 response
C21_Witness ==
    /\ Len(log_records) = 1
    /\ log_records[1].line = "Failed to log analysis result"
    /\ http_response.status_code = 200
    /\ http_response.content.data = result
    /\ IsFallback(result)

(***************************************************************************)
(* C23.  A request to /analyze whose message list is empty, or in which no *)
(* message has non-empty content after sanitization, is rejected with      *)
(* status 400 and the orchestrator is never invoked for it: for such a     *)
(* request the route can only reject, its response is a 400, analyze_      *)
(* message is not called, no agent runs and no inference call is made.     *)
(***************************************************************************)
NoText(msgs) == \A k \in 1..Len(msgs) : Strip(msgs[k].content) = ""

C23_EmptyRejected ==
    NoText(conversation) =>
        /\ route \in {"off", "received", "responded"}
        /\ route = "received" => ENABLED RouteRejects /\ ~ENABLED RouteCallsOrchestrator
        /\ route = "responded" => http_response.status_code = 400
        /\ pc = "off"
        /\ conversation_history = <<>>
        /\ TotalCalls = 0
        /\ \A i \in Ids : invocations[i] = 0
        /\ background_tasks = <<>>

\* two messages of blanks and nothing, rejected
C23_Witness ==
    /\ Len(conversation) = 2
    /\ conversation[1].content = " "
    /\ NoText(conversation)
    /\ route = "responded"
    /\ http_response.status_code = 400

====
